---------------------------- MODULE Spec2Model ----------------------------
(* Model of ResumeGen (src/app.py): the greedy word wrapper, the page-flow  *)
(* composer create_resume_pdf, and the Streamlit "Generate PDF" handler.    *)
(*                                                                          *)
(* Lengths are exact integers.  One PostScript point is `pt' model units,   *)
(* chosen so that a centimetre (72/2.54 pt), the 0.8 pt paragraph gap, the  *)
(* half-point font sizes and glyph widths (1/1000 em) are all whole.        *)
(* Floating-point rounding of the Python arithmetic is not modelled.        *)
(* A text is a sequence of one-character strings.                           *)
EXTENDS Integers, Sequences, FiniteSets, TLC

VARIABLES
    wtext, wmax, wlines, wpc,                  \* one call of the text wrapper
    data, pc, y, page, drawn, i, saved,        \* one pass of create_resume_pdf
    jsonFile, outFiles, edited, msg, renderCalls, clicks, served   \* the editing page

wvars == <<wtext, wmax, wlines, wpc>>
rvars == <<data, pc, y, page, drawn, i, saved>>
avars == <<jsonFile, outFiles, edited, msg, renderCalls, clicks, served>>
vars == <<wvars, rvars, avars>>

---------------------------------------------------------------------------
(* Units and page geometry                                                  *)

pt == 254000
cm == (3600 * pt) \div 127
PAGE_W == 21 * cm
PAGE_H == (297 * cm) \div 10
MIN_LINE_GAP == (8 * pt) \div 10

Max(a, b) == IF a >= b THEN a ELSE b

---------------------------------------------------------------------------
(* Text measurement and wrapping                                            *)

Whitespace == {" ", "\n"}

\* Advance widths, in 1/1000 em, of the glyphs the model's texts use.
GlyphWidth(ch, font) ==
    CASE ch = "W" -> 944
      [] ch = "i" -> IF font = "Helvetica-Bold" THEN 278 ELSE 222
      [] OTHER    -> 278

\* Sum of the advance widths of s[lo .. hi].
RECURSIVE GlyphSumRange(_, _, _, _)
GlyphSumRange(s, lo, hi, font) ==
    IF lo > hi THEN 0
    ELSE IF lo = hi THEN GlyphWidth(s[lo], font)
    ELSE LET mid == (lo + hi) \div 2
         IN  GlyphSumRange(s, lo, mid, font) + GlyphSumRange(s, mid + 1, hi, font)

GlyphSum(s, font) == GlyphSumRange(s, 1, Len(s), font)

\* stringWidth(text, font, size), in model units; size is a multiple of 1000.
stringWidth(s, font, size) == GlyphSum(s, font) * (size \div 1000)

\* Positions where a maximal run of non-whitespace starts, and where one ends.
WordStarts(s) ==
    {k \in 1 .. Len(s) : s[k] \notin Whitespace /\ (k = 1 \/ s[k - 1] \in Whitespace)}
WordEnds(s) ==
    {k \in 1 .. Len(s) : s[k] \notin Whitespace /\ (k = Len(s) \/ s[k + 1] \in Whitespace)}

\* The j-th smallest element of a set of integers.
Nth(S, j) == CHOOSE k \in S : Cardinality({m \in S : m < k}) = j - 1

\* str.split(): the maximal runs of non-whitespace, in order.
split(s) ==
    LET starts == WordStarts(s)
        ends == WordEnds(s)
    IN  [j \in 1 .. Cardinality(starts) |-> SubSeq(s, Nth(starts, j), Nth(ends, j))]

\* str.strip(): leading and trailing whitespace removed.
strip(s) ==
    LET inked == {k \in 1 .. Len(s) : s[k] \notin Whitespace}
    IN  IF inked = {} THEN <<>>
        ELSE SubSeq(s, Nth(inked, 1), Nth(inked, Cardinality(inked)))

\* The loop body of the wrapper with the comparison against the line built so
\* far instead of the candidate line.
RECURSIVE WrapLoop_stale(_, _, _, _, _, _)
WrapLoop_stale(words, line, lines, max_width, font, size) ==
    IF words = <<>> THEN [line |-> line, lines |-> lines]
    ELSE LET w == Head(words)
             test == strip(line \o <<" ">> \o w)
         IN  IF stringWidth(line, font, size) <= max_width
             THEN WrapLoop_stale(Tail(words), test, lines, max_width, font, size)
             ELSE WrapLoop_stale(Tail(words), w,
                                 IF line # <<>> THEN Append(lines, line) ELSE lines,
                                 max_width, font, size)

\* The loop with the overflowing word dropped instead of starting the next line.
RECURSIVE WrapLoop_drop(_, _, _, _, _, _)
WrapLoop_drop(words, line, lines, max_width, font, size) ==
    IF words = <<>> THEN [line |-> line, lines |-> lines]
    ELSE LET w == Head(words)
             test == strip(line \o <<" ">> \o w)
         IN  IF stringWidth(test, font, size) <= max_width
             THEN WrapLoop_drop(Tail(words), test, lines, max_width, font, size)
             ELSE WrapLoop_drop(Tail(words), <<>>,
                                IF line # <<>> THEN Append(lines, line) ELSE lines,
                                max_width, font, size)

\* for w in words: ...  (the greedy loop; the same text in both wrappers)
RECURSIVE WrapLoop(_, _, _, _, _, _)
WrapLoop(words, line, lines, max_width, font, size) ==
    IF words = <<>> THEN [line |-> line, lines |-> lines]
    ELSE LET w == Head(words)
             test == strip(line \o <<" ">> \o w)
         IN  IF stringWidth(test, font, size) <= max_width
             THEN WrapLoop(Tail(words), test, lines, max_width, font, size)
             ELSE WrapLoop(Tail(words), w,
                           IF line # <<>> THEN Append(lines, line) ELSE lines,
                           max_width, font, size)

wrap_lines(text, max_width, font, size) ==
    LET words == split(text)
    IN  IF words = <<>> THEN <<>>
        ELSE LET r == WrapLoop(words, <<>>, <<>>, max_width, font, size)
             IN  IF r.line # <<>> THEN Append(r.lines, r.line) ELSE r.lines

\* The lines draw_wrapped_text draws (its own copy of the loop).
wrapped_text_lines(text, max_width, font, size) ==
    LET r == WrapLoop(split(text), <<>>, <<>>, max_width, font, size)
    IN  IF r.line # <<>> THEN Append(r.lines, r.line) ELSE r.lines

\* draw_wrapped_text: the returned cursor.
draw_wrapped_text(text, ypos, max_width, font, size, leading) ==
    ypos - Len(wrapped_text_lines(text, max_width, font, size)) * leading - MIN_LINE_GAP

---------------------------------------------------------------------------
(* Layout primitives                                                        *)

\* dict.get(key, default) on a JSON object (a function on its present keys).
Get(d, k, dflt) == IF k \in DOMAIN d THEN d[k] ELSE dflt

\* Python truthiness of a dict: empty is false.
truthy(d) == DOMAIN d # {}

\* x or []
OrEmpty(x) == IF x = <<>> THEN <<>> ELSE x

draw_section_title(ypos) == ypos - (14 * pt + MIN_LINE_GAP)

draw_divider(ypos) == ypos - 8 * pt

RECURSIVE draw_bullets(_, _, _, _, _, _, _)
draw_bullets(bullets, ypos, max_width, font, size, leading, bullet_indent) ==
    IF bullets = <<>> THEN ypos
    ELSE draw_bullets(Tail(bullets),
                      draw_wrapped_text(Head(bullets), ypos, max_width - bullet_indent,
                                        font, size, leading) - MIN_LINE_GAP,
                      max_width, font, size, leading, bullet_indent)

\* box_height of draw_boxed_block (line_gap is left at its default, 0).
box_height(lines, padding, leading, line_gap) ==
    padding * 2 + Len(lines) * leading + Max(0, Len(lines) - 1) * line_gap

\* draw_boxed_block returns (y, box_height): the top it was given, unchanged.
draw_boxed_block(ypos, lines, padding, leading) ==
    [new_y |-> ypos, box_height |-> box_height(lines, padding, leading, 0)]

---------------------------------------------------------------------------
(* create_resume_pdf: layout constants                                      *)

left == (5 * cm) \div 10
right == (5 * cm) \div 10
top == (75 * cm) \div 100
bottom == 0 * cm
content_w == PAGE_W - left - right
label_w == (42 * cm) \div 10
gap == (6 * cm) \div 10
value_x == left + label_w + gap
value_w == content_w - label_w - gap
col_gap == (6 * cm) \div 10
col_w == (content_w - col_gap) \div 2
card_padding == 6 * pt
edu_size == (85 * pt) \div 10
edu_leading == 11 * pt
row_gap == 10 * pt
edu_wrap_w == col_w - 2 * card_padding

\* new_page_if_needed: whether it breaks, and the cursor it returns.
page_break_needed(ypos) == ypos < bottom + 2 * cm
\* the reset to the page top with the top margin forgotten
new_page_if_needed_no_margin(ypos) == IF page_break_needed(ypos) THEN PAGE_H ELSE ypos

new_page_if_needed(ypos) == IF page_break_needed(ypos) THEN PAGE_H - top ELSE ypos

\* The education loop's own "rough" check.
edu_break_needed(ypos) == ypos < bottom + 4 * cm

\* One drawing primitive on the canvas, on the page current when it was drawn.
Drawn(op, tag, ypos, n) ==
    [op |-> op, tag |-> tag, page |-> page, y |-> ypos, n |-> n,
     h |-> 0, col |-> "", idx |-> 0]

Card(col, idx, ypos, n, h) ==
    [op |-> "card", tag |-> "education", page |-> page, y |-> ypos, n |-> n,
     h |-> h, col |-> col, idx |-> idx]

skills_snapshot == OrEmpty(Get(data, "skills_snapshot", <<>>))
experience == OrEmpty(Get(data, "experience", <<>>))
edu_items == OrEmpty(Get(data, "education", <<>>))
certs == OrEmpty(Get(data, "certifications", <<>>))
refs == OrEmpty(Get(data, "references", <<>>))

\* The line block of one education card: degree lines, then details lines.
card_lines(item) ==
    wrap_lines(Get(item, "degree", <<>>), edu_wrap_w, "Helvetica", edu_size)
    \o wrap_lines(Get(item, "details", <<>>), edu_wrap_w, "Helvetica", edu_size)

\* lines += [""] * (max_lines - len(lines)), when shorter
pad_nothing(lines, max_lines) == lines

pad(lines, max_lines) ==
    IF Len(lines) < max_lines
    THEN lines \o [k \in 1 .. (max_lines - Len(lines)) |-> <<>>]
    ELSE lines

\* Row k (k = 0, 1, ...) of the education grid, as the loop body computes it
\* with i = 2k.
has_right(items, k) == (2 * k + 1) < Len(items)
right_drawn(items, k) == has_right(items, k) /\ truthy(items[2 * k + 2])
raw_left(items, k) == card_lines(items[2 * k + 1])
raw_right(items, k) == IF right_drawn(items, k) THEN card_lines(items[2 * k + 2]) ELSE <<>>
max_lines(items, k) ==
    Max(Len(raw_left(items, k)), IF right_drawn(items, k) THEN Len(raw_right(items, k)) ELSE 0)
left_lines(items, k) == pad(raw_left(items, k), max_lines(items, k))
right_lines(items, k) == pad(raw_right(items, k), max_lines(items, k))

---------------------------------------------------------------------------
(* Input documents                                                          *)

MaxItems == 1
MaxTail == 1
MaxEdu == 3
MaxTallEdu == 9

NoKeys == [k \in {} |-> <<>>]

RECURSIVE Words(_, _)
\* k words of n "W" each, separated by single spaces
Words(k, n) ==
    IF k = 0 THEN <<>>
    ELSE [j \in 1 .. n |-> "W"] \o (IF k = 1 THEN <<>> ELSE <<" ">> \o Words(k - 1, n))

ShortText == <<"W", "i", " ", "i", "W">>
\* two words that do not share a line at content width in 10 pt
TwoLineText == Words(2, 31)

EduEmpty == NoKeys
EduShort == [degree |-> <<"W", "i">>, details |-> ShortText]
\* the degree wraps to three lines in a card column; there are no details
EduWide == [degree |-> Words(3, 17)]
\* one degree line and fifteen detail lines: a card taller than 4 cm
EduTall == [degree |-> <<"W", "i">>, details |-> Words(15, 17)]

EduEntries == {EduEmpty, EduShort, EduWide}

SmallEduLists == UNION {[1 .. n -> EduEntries] : n \in 0 .. MaxEdu}
TallEduLists == {[k \in 1 .. n |-> EduTall] : n \in (MaxTallEdu - 1) .. MaxTallEdu}

SkillItem(k) == [label |-> <<"W">>, value |-> IF k = 1 THEN ShortText ELSE TwoLineText]
ExpEntry(k) ==
    [company |-> <<"W", "i">>, role_line |-> ShortText,
     bullets |-> [j \in 1 .. k |-> ShortText]]

Optional(key, val, present) == IF present THEN (key :> val) ELSE NoKeys

\* A resume object: n skills and n experience entries, nc certifications,
\* nr references; a key is absent when its value would be empty.
MkDoc(obj, n, edu, nc, nr) ==
    [name |-> <<"W">>, contact |-> <<"i", "W">>]
    @@ Optional("career_objective", obj, obj # <<>>)
    @@ Optional("skills_snapshot", [k \in 1 .. n |-> SkillItem(k)], n > 0)
    @@ Optional("experience", [k \in 1 .. n |-> ExpEntry(k)], n > 0)
    @@ Optional("education", edu, edu # <<>>)
    @@ Optional("certifications", [k \in 1 .. nc |-> ShortText], nc > 0)
    @@ Optional("references", [k \in 1 .. nr |-> ShortText], nr > 0)

Docs ==
    { MkDoc(obj, n, edu, nc, nr) :
        obj \in {<<>>, ShortText, TwoLineText}, n \in 0 .. MaxItems,
        edu \in SmallEduLists, nc \in {0, MaxTail}, nr \in {0, MaxTail} }
    \cup { MkDoc(ShortText, 0, edu, nc, MaxTail) :
             edu \in TallEduLists, nc \in {0, MaxTail} }

---------------------------------------------------------------------------
(* create_resume_pdf, one statement group per step                          *)

CheckPcs ==
    {"check_objective", "check_skills", "check_skill", "check_experience",
     "check_exp_block", "check_certs", "check_refs", "check_ref"}

AfterCheck(p) ==
    CASE p = "check_objective"  -> "objective"
      [] p = "check_skills"     -> "skills_title"
      [] p = "check_skill"      -> "skill_item"
      [] p = "check_experience" -> "exp_title"
      [] p = "check_exp_block"  -> "exp_block"
      [] p = "check_certs"      -> "certs"
      [] p = "check_refs"       -> "refs_title"
      [] p = "check_ref"        -> "ref_item"

\* c = canvas.Canvas(...); draw_page_border(...); y = PAGE_H - top
Begin ==
    /\ UNCHANGED <<wvars, avars>>
    /\ pc = "begin"
    /\ y' = PAGE_H - top
    /\ drawn' = Append(drawn, Drawn("border", "", 0, 0))
    /\ pc' = "header"
    /\ UNCHANGED <<data, page, i, saved>>

\* name, contact, divider
DrawHeader ==
    /\ UNCHANGED <<wvars, avars>>
    /\ pc = "header"
    /\ y' = draw_divider(y - 15 * pt - 8 * pt) - 3 * pt
    /\ drawn' = drawn \o <<Drawn("name", "", y, 1),
                           Drawn("contact", "", y - 15 * pt, 1),
                           Drawn("divider", "", y - 15 * pt - 8 * pt, 0)>>
    /\ pc' = "check_objective"
    /\ UNCHANGED <<data, page, i, saved>>

\* y = new_page_if_needed(y)
PageCheck ==
    /\ UNCHANGED <<wvars, avars>>
    /\ pc \in CheckPcs
    /\ y' = new_page_if_needed(y)
    /\ page' = IF page_break_needed(y) THEN page + 1 ELSE page
    /\ pc' = AfterCheck(pc)
    /\ UNCHANGED <<data, drawn, i, saved>>

Objective ==
    /\ UNCHANGED <<wvars, avars>>
    /\ pc = "objective"
    /\ LET objective == Get(data, "career_objective", <<>>)
           n == Len(wrapped_text_lines(objective, content_w, "Helvetica", 10 * pt))
       IN  /\ y' = draw_wrapped_text(objective, draw_section_title(y), content_w,
                                     "Helvetica", 10 * pt, 12 * pt) - 10 * pt
           /\ drawn' = drawn \o <<Drawn("title", "CAREER OBJECTIVE", y, 1),
                                  Drawn("para", "objective", draw_section_title(y), n)>>
    /\ pc' = "check_skills"
    /\ UNCHANGED <<data, page, i, saved>>

SkillsTitle ==
    /\ UNCHANGED <<wvars, avars>>
    /\ pc = "skills_title"
    /\ y' = draw_section_title(y)
    /\ drawn' = Append(drawn, Drawn("title", "SKILLS SNAPSHOT", y, 1))
    /\ i' = 1
    /\ pc' = IF skills_snapshot # <<>> THEN "check_skill" ELSE "skills_end"
    /\ UNCHANGED <<data, page, saved>>

SkillRow ==
    /\ UNCHANGED <<wvars, avars>>
    /\ pc = "skill_item"
    /\ LET item == skills_snapshot[i]
           value == Get(item, "value", <<>>)
           n == Len(wrapped_text_lines(value, value_w, "Helvetica", 10 * pt))
       IN  /\ y' = draw_wrapped_text(value, y, value_w, "Helvetica", 10 * pt, 12 * pt)
                   - 2 * pt
           /\ drawn' = drawn \o <<Drawn("label", "skills", y, 1),
                                  Drawn("para", "skills", y, n)>>
    /\ i' = i + 1
    /\ pc' = IF i < Len(skills_snapshot) THEN "check_skill" ELSE "skills_end"
    /\ UNCHANGED <<data, page, saved>>

SkillsEnd ==
    /\ UNCHANGED <<wvars, avars>>
    /\ pc = "skills_end"
    /\ y' = y - 10 * pt
    /\ pc' = "check_experience"
    /\ UNCHANGED <<data, page, drawn, i, saved>>

ExpTitle ==
    /\ UNCHANGED <<wvars, avars>>
    /\ pc = "exp_title"
    /\ y' = draw_section_title(y)
    /\ drawn' = Append(drawn, Drawn("title", "EXPERIENCE", y, 1))
    /\ i' = 1
    /\ pc' = IF experience # <<>> THEN "check_exp_block" ELSE "edu_title"
    /\ UNCHANGED <<data, page, saved>>

\* exp_block, after its page check
ExpBlock ==
    /\ UNCHANGED <<wvars, avars>>
    /\ pc = "exp_block"
    /\ LET exp == experience[i]
           role_line == Get(exp, "role_line", <<>>)
           bullets == OrEmpty(Get(exp, "bullets", <<>>))
           y1 == y - 13 * pt
           y2 == draw_wrapped_text(role_line, y1, content_w, "Helvetica-Bold",
                                   10 * pt, 12 * pt) - 2 * pt
           y3 == draw_bullets(bullets, y2, content_w, "Helvetica", 10 * pt, 12 * pt,
                              10 * pt) - 6 * pt
       IN  /\ y' = y3
           /\ drawn' = drawn \o <<Drawn("company", "experience", y, 1),
                                  Drawn("para", "experience", y1,
                                        Len(wrapped_text_lines(role_line, content_w,
                                                               "Helvetica-Bold", 10 * pt))),
                                  Drawn("bullets", "experience", y2, Len(bullets))>>
    /\ i' = i + 1
    /\ pc' = IF i < Len(experience) THEN "check_exp_block" ELSE "edu_title"
    /\ UNCHANGED <<data, page, saved>>

\* y = draw_section_title(c, "EDUCATION", ...); y += 15; i = 0
EduTitle ==
    /\ UNCHANGED <<wvars, avars>>
    /\ pc = "edu_title"
    /\ y' = draw_section_title(y) + 15 * pt
    /\ drawn' = Append(drawn, Drawn("title", "EDUCATION", y, 1))
    /\ i' = 0
    /\ pc' = "edu_loop"
    /\ UNCHANGED <<data, page, saved>>

\* while i < len(edu_items): if y < bottom + 4 * cm: showPage; y = PAGE_H - top
EduLoopHead ==
    /\ UNCHANGED <<wvars, avars>>
    /\ pc = "edu_loop"
    /\ IF i < Len(edu_items)
       THEN /\ y' = IF edu_break_needed(y) THEN PAGE_H - top ELSE y
            /\ page' = IF edu_break_needed(y) THEN page + 1 ELSE page
            /\ pc' = "edu_row"
       ELSE /\ pc' = "certs_if"
            /\ UNCHANGED <<y, page>>
    /\ UNCHANGED <<data, drawn, i, saved>>

\* the rest of the loop body: build, pad and draw the row's cards, advance
EduRow ==
    /\ UNCHANGED <<wvars, avars>>
    /\ pc = "edu_row"
    /\ LET k == i \div 2
           lines_l == left_lines(edu_items, k)
           lines_r == right_lines(edu_items, k)
           left_box == draw_boxed_block(y, lines_l, card_padding, edu_leading)
           right_box == draw_boxed_block(y, lines_r, card_padding, edu_leading)
           h_left == left_box.box_height
           h_right == right_box.box_height
           row_height == IF right_drawn(edu_items, k) THEN Max(h_left, h_right)
                         ELSE h_left
       IN  /\ drawn' = drawn
                 \o <<Card("left", i, y, Len(lines_l), h_left)>>
                 \o (IF right_drawn(edu_items, k)
                     THEN <<Card("right", i + 1, y, Len(lines_r), h_right)>>
                     ELSE <<>>)
           /\ y' = y - row_height - row_gap
    /\ i' = i + 2
    /\ pc' = "edu_loop"
    /\ UNCHANGED <<data, page, saved>>

CertsIf ==
    /\ UNCHANGED <<wvars, avars>>
    /\ pc = "certs_if"
    /\ pc' = IF certs # <<>> THEN "check_certs" ELSE "refs_if"
    /\ UNCHANGED <<data, y, page, drawn, i, saved>>

Certs ==
    /\ UNCHANGED <<wvars, avars>>
    /\ pc = "certs"
    /\ y' = draw_divider(draw_bullets(certs, draw_section_title(y), content_w,
                                      "Helvetica", 10 * pt, 12 * pt, 10 * pt))
    /\ drawn' = drawn \o <<Drawn("title", "CERTIFICATIONS", y, 1),
                           Drawn("bullets", "certifications", draw_section_title(y),
                                 Len(certs))>>
    /\ pc' = "refs_if"
    /\ UNCHANGED <<data, page, i, saved>>

RefsIf ==
    /\ UNCHANGED <<wvars, avars>>
    /\ pc = "refs_if"
    /\ pc' = IF refs # <<>> THEN "check_refs" ELSE "save"
    /\ UNCHANGED <<data, y, page, drawn, i, saved>>

RefsTitle ==
    /\ UNCHANGED <<wvars, avars>>
    /\ pc = "refs_title"
    /\ y' = draw_section_title(y - 2 * pt)
    /\ drawn' = Append(drawn, Drawn("title", "REFERENCE", y - 2 * pt, 1))
    /\ i' = 1
    /\ pc' = "check_ref"
    /\ UNCHANGED <<data, page, saved>>

RefItem ==
    /\ UNCHANGED <<wvars, avars>>
    /\ pc = "ref_item"
    /\ y' = draw_wrapped_text(refs[i], y, content_w, "Helvetica", 8 * pt, 6 * pt) - 4 * pt
    /\ drawn' = Append(drawn, Drawn("para", "references", y,
                                    Len(wrapped_text_lines(refs[i], content_w,
                                                           "Helvetica", 8 * pt))))
    /\ i' = i + 1
    /\ pc' = IF i < Len(refs) THEN "check_ref" ELSE "save"
    /\ UNCHANGED <<data, page, saved>>

\* c.save()
Save ==
    /\ UNCHANGED <<wvars, avars>>
    /\ pc = "save"
    /\ saved' = TRUE
    /\ pc' = "done"
    /\ UNCHANGED <<data, y, page, drawn, i>>

RenderNext ==
    \/ Begin \/ DrawHeader \/ PageCheck \/ Objective \/ SkillsTitle \/ SkillRow
    \/ SkillsEnd \/ ExpTitle \/ ExpBlock \/ EduTitle \/ EduLoopHead \/ EduRow
    \/ CertsIf \/ Certs \/ RefsIf \/ RefsTitle \/ RefItem \/ Save

WrapIdle == wtext = <<>> /\ wmax = 0 /\ wlines = <<>> /\ wpc = "off"
AppIdle ==
    /\ jsonFile = NoKeys /\ outFiles = NoKeys /\ edited = NoKeys
    /\ msg = "none" /\ renderCalls = 0 /\ clicks = 0 /\ served = NoKeys

RenderInit ==
    /\ data \in Docs
    /\ pc = "begin" /\ y = 0 /\ page = 1 /\ drawn = <<>> /\ i = 0 /\ saved = FALSE
    /\ WrapIdle /\ AppIdle

SpecRender == RenderInit /\ [][RenderNext]_vars

---------------------------------------------------------------------------
(* One call of a wrapper on an arbitrary short text                         *)

MaxLen == 5

Alphabet == {"W", "i", " ", "\n"}
Texts == UNION {[1 .. n -> Alphabet] : n \in 0 .. MaxLen}
\* maximum widths between "nothing fits" and "two wide words fit"
MaxWidths == {0, 5 * pt, 12 * pt, 21 * pt, 30 * pt}
default_size == (95 * pt) \div 10

RenderIdle ==
    /\ data = NoKeys /\ pc = "off" /\ y = 0 /\ page = 0 /\ drawn = <<>>
    /\ i = 0 /\ saved = FALSE

CallWrapLines ==
    /\ wpc = "ready"
    /\ wlines' = wrap_lines(wtext, wmax, "Helvetica", default_size)
    /\ wpc' = "wrapped"
    /\ UNCHANGED <<wtext, wmax, rvars, avars>>

CallDrawWrappedText ==
    /\ wpc = "ready"
    /\ wlines' = wrapped_text_lines(wtext, wmax, "Helvetica", default_size)
    /\ wpc' = "drawn"
    /\ UNCHANGED <<wtext, wmax, rvars, avars>>

WrapInit ==
    /\ wtext \in Texts /\ wmax \in MaxWidths /\ wlines = <<>> /\ wpc = "ready"
    /\ RenderIdle /\ AppIdle

WrapNext == CallWrapLines \/ CallDrawWrappedText

SpecWrap == WrapInit /\ [][WrapNext]_vars

---------------------------------------------------------------------------
(* The editing page: the Generate PDF button and the download button        *)

MaxClicks == 3

JSON_PATH == "resume_data.json"
OUTPUT_PDF == "Rachit_Sharma_Resume_Generated.pdf"
\* the output_path the button handler passes to create_resume_pdf
HANDLER_OUTPUT == "RachitS_Resume.pdf"

\* JSON values the editor may hold: two resume objects and a list.
ObjA == [kind |-> "object", body |-> MkDoc(ShortText, 0, <<>>, 0, 0)]
ObjB == [kind |-> "object", body |-> MkDoc(<<>>, 0, <<EduShort>>, 0, 0)]
ListC == [kind |-> "array", body |-> <<1, 2>>]
JsonValues == {ObjA, ObjB, ListC}

\* A text is what it parses to (if it parses) and whether it is laid out as
\* json.dumps(indent=2) lays it out.
ValidTexts == [valid : {TRUE}, value : JsonValues, pretty : BOOLEAN]
InvalidTexts == [valid : {FALSE}, value : {ObjA}, pretty : {FALSE}]
EditorTexts == ValidTexts \cup InvalidTexts

\* json.loads that takes any text for the object it resembles
json_loads_lenient(text) == [ok |-> TRUE, value |-> text.value]

\* json.loads: the value, or JSONDecodeError (ok false; value is then unused)
json_loads(text) == [ok |-> text.valid, value |-> text.value]

\* json.dumps(data, indent=2)
json_dumps(value) == [valid |-> TRUE, value |-> value, pretty |-> TRUE]

\* create_resume_pdf on the stored file: data.get raises on a non-object
\* before anything is saved; otherwise c.save() writes output_path.
render_raises(text) == ~json_loads(text).ok \/ json_loads(text).value.kind # "object"
rendered_pdf(text, stamp) == [doc |-> json_loads(text).value, stamp |-> stamp]

\* The handler's call of create_resume_pdf is read as closed after its
\* output_path argument (the source leaves the parenthesis open).
Generate(text) ==
    /\ clicks < MaxClicks
    /\ clicks' = clicks + 1
    /\ edited' = text
    /\ served' = served
    /\ LET parsed == json_loads(text)
           stored == json_dumps(parsed.value)
       IN  IF ~parsed.ok
           THEN /\ msg' = "error"
                /\ UNCHANGED <<jsonFile, outFiles, renderCalls>>
           ELSE /\ jsonFile' = stored
                /\ renderCalls' = renderCalls + 1
                /\ IF render_raises(stored)
                   THEN msg' = "error" /\ outFiles' = outFiles
                   ELSE /\ msg' = "success"
                        /\ outFiles' =
                             (HANDLER_OUTPUT :> rendered_pdf(stored, clicks + 1)) @@ outFiles
    /\ UNCHANGED <<wvars, rvars>>

\* if Path(OUTPUT_PDF).exists(): st.download_button(...)
download_exposed == OUTPUT_PDF \in DOMAIN outFiles

Download ==
    /\ download_exposed
    /\ served' = [file_name |-> OUTPUT_PDF, mime |-> "application/pdf",
                  bytes |-> outFiles[OUTPUT_PDF]]
    /\ msg' = "none"
    /\ UNCHANGED <<jsonFile, outFiles, edited, renderCalls, clicks, wvars, rvars>>

StalePdf == [doc |-> ObjA, stamp |-> 0]

AppInit ==
    /\ jsonFile \in {t \in ValidTexts : t.value.kind = "object"}
    /\ outFiles \in {NoKeys, OUTPUT_PDF :> StalePdf}
    /\ edited = jsonFile
    /\ msg = "none" /\ renderCalls = 0 /\ clicks = 0 /\ served = NoKeys
    /\ WrapIdle /\ RenderIdle

AppNext == (\E text \in EditorTexts : Generate(text)) \/ Download

SpecApp == AppInit /\ [][AppNext]_vars

---------------------------------------------------------------------------
(* Properties of the wrappers (SpecWrap)                                    *)

RECURSIVE JoinSpaces(_)
\* " ".join(lines)
JoinSpaces(lines) ==
    IF lines = <<>> THEN <<>>
    ELSE IF Len(lines) = 1 THEN Head(lines)
    ELSE Head(lines) \o <<" ">> \o JoinSpaces(Tail(lines))

Wide(line) == stringWidth(line, "Helvetica", default_size) > wmax
Range(f) == {f[k] : k \in DOMAIN f}
IsOneWordOf(line, text) == line \in Range(split(text))

\* C1: every line a wrapper returns measures at most max_width, unless the
\* line is exactly one word of the text, unmodified, that alone is wider than
\* max_width.
C1_LinesFitOrLoneWideWord ==
    wpc \in {"wrapped", "drawn"} =>
        \A k \in 1 .. Len(wlines) :
            \/ ~Wide(wlines[k])
            \/ IsOneWordOf(wlines[k], wtext)

\* C1 witness: a wrap that produced a lone over-wide word and a fitting line.
C1_Witness ==
    /\ wpc = "wrapped"
    /\ \E k \in 1 .. Len(wlines) : Wide(wlines[k]) /\ IsOneWordOf(wlines[k], wtext)
    /\ \E k \in 1 .. Len(wlines) : ~Wide(wlines[k])

\* C2: joining the lines of wrap_lines with single spaces and splitting on
\* whitespace gives back the word sequence of the text; text without words
\* gives no lines, and no line is empty.
C2_WordsPreserved ==
    wpc = "wrapped" =>
        /\ split(JoinSpaces(wlines)) = split(wtext)
        /\ (split(wtext) = <<>>) <=> (wlines = <<>>)
        /\ \A k \in 1 .. Len(wlines) : wlines[k] # <<>>

\* C2 witness: a text with irregular whitespace wrapped into several lines.
C2_Witness ==
    /\ wpc = "wrapped"
    /\ Len(wlines) >= 2
    /\ \E k \in 1 .. Len(wtext) : wtext[k] = "\n"
    /\ JoinSpaces(wlines) # wtext

---------------------------------------------------------------------------
(* Properties of one render pass (SpecRender)                               *)

CardsDrawn == {drawn[k] : k \in {j \in 1 .. Len(drawn) : drawn[j].op = "card"}}
TitlesDrawn == {drawn[k].tag : k \in {j \in 1 .. Len(drawn) : drawn[j].op = "title"}}

\* C3 as claimed: no step after the cursor is set up raises y except a page
\* break, and every page break sets y to exactly PAGE_H - top.
C3_CursorFallsExceptAtPageBreak ==
    [][pc # "begin" =>
         /\ (y' > y => page' = page + 1)
         /\ (page' # page => y' = PAGE_H - top)]_vars

\* C3 as amended: the only step other than a page break that raises y is the
\* EDUCATION title step, which nets +0.2 pt (15 pt up after the title's
\* 14.8 pt down); every page break sets y to exactly PAGE_H - top.
C3_CursorFallsExceptBreakAndEduTitle ==
    [][pc # "begin" =>
         /\ (y' > y =>
               \/ page' = page + 1
               \/ (pc = "edu_title" /\ y' - y = 15 * pt - (14 * pt + (8 * pt) \div 10)))
         /\ (page' # page => page' = page + 1 /\ y' = PAGE_H - top)]_vars

\* C3 witness: a finished pass that broke the page (and drew the EDUCATION
\* title on its way).
C3_Witness == pc = "done" /\ page >= 2 /\ "EDUCATION" \in TitlesDrawn

\* C4: a new page starts exactly when a page-break check finds the space left
\* above the bottom margin below its threshold, and every education card
\* drawn at y with height h lies on its page (y - h is not below the bottom
\* margin).
C4_BreakAtThresholdAndCardsOnPage ==
    [][/\ (page' # page) <=>
             \/ (pc \in CheckPcs /\ y - bottom < 2 * cm)
             \/ (pc = "edu_loop" /\ i < Len(edu_items) /\ y - bottom < 4 * cm)
       /\ \A c \in CardsDrawn' : c.y - c.h >= bottom]_vars

\* C5: a document with only name, contact and a short career_objective ends
\* as one page holding the name, the contact line and the objective
\* paragraph, with no title and no content of the skills, experience and
\* education sections.
C5_MinimalDocDrawsNoEmptySections ==
    (/\ pc = "done"
     /\ DOMAIN data = {"name", "contact", "career_objective"}
     /\ data["career_objective"] = ShortText)
    => /\ page = 1
       /\ \E k \in 1 .. Len(drawn) : drawn[k].op = "name"
       /\ \E k \in 1 .. Len(drawn) : drawn[k].op = "contact"
       /\ \E k \in 1 .. Len(drawn) :
              drawn[k].op = "para" /\ drawn[k].tag = "objective" /\ drawn[k].n = 1
       /\ TitlesDrawn \cap {"SKILLS SNAPSHOT", "EXPERIENCE", "EDUCATION"} = {}
       /\ \A k \in 1 .. Len(drawn) :
              drawn[k].tag \notin {"skills", "experience", "education"}

\* C6: in a row with a left and a right card whose wrapped blocks have m and
\* n lines, both padded blocks have max(m, n) lines, the two box heights are
\* equal, and the cursor moves down by that height plus 10 pt.
C6_PairedCardsPaddedToEqualHeight ==
    \A L \in CardsDrawn : \A R \in CardsDrawn :
        (L.col = "left" /\ R.col = "right" /\ R.idx = L.idx + 1) =>
            LET m == Len(card_lines(edu_items[L.idx + 1]))
                n == Len(card_lines(edu_items[R.idx + 1]))
            IN  /\ L.n = Max(m, n) /\ R.n = Max(m, n)
                /\ L.h = R.h
                /\ L.y = R.y
                /\ (pc = "edu_loop" /\ i = R.idx + 1) => y = L.y - L.h - 10 * pt

\* C6 witness: a row just drawn whose two cards wrapped to different numbers
\* of lines.
C6_Witness ==
    /\ pc = "edu_loop"
    /\ \E L \in CardsDrawn : \E R \in CardsDrawn :
          /\ L.col = "left" /\ R.col = "right" /\ R.idx = L.idx + 1 /\ i = R.idx + 1
          /\ Len(card_lines(edu_items[L.idx + 1])) # Len(card_lines(edu_items[R.idx + 1]))

\* C7: n education entries end as ceil(n/2) rows; every entry is in exactly
\* one card, entry 2k in the left and entry 2k+1 in the right column of row k,
\* in input order; an odd last entry is alone in the left column.
C7_EveryEntryInItsCard ==
    pc = "done" =>
        LET n == Len(edu_items)
            rows == {c \in CardsDrawn : c.col = "left"}
        IN  /\ Cardinality(rows) = (n + 1) \div 2
            /\ \A j \in 0 .. n - 1 :
                   /\ Cardinality({c \in CardsDrawn : c.idx = j}) = 1
                   /\ \A c \in CardsDrawn :
                          c.idx = j => c.col = (IF j % 2 = 0 THEN "left" ELSE "right")
            /\ \A c \in CardsDrawn : c.idx \in 0 .. n - 1
            /\ \A a \in 1 .. Len(drawn) : \A b \in 1 .. Len(drawn) :
                   (drawn[a].op = "card" /\ drawn[b].op = "card" /\ a < b)
                       => drawn[a].idx < drawn[b].idx

---------------------------------------------------------------------------
(* Properties of the editing page (SpecApp)                                 *)

Clicked == clicks' = clicks + 1

\* C8: Generate on text that is not valid JSON leaves resume_data.json as it
\* was, shows an error, and does not call create_resume_pdf.
C8_InvalidJsonChangesNothing ==
    [][(Clicked /\ ~edited'.valid) =>
          /\ jsonFile' = jsonFile
          /\ msg' = "error"
          /\ renderCalls' = renderCalls
          /\ outFiles' = outFiles]_vars

\* C8 witness: an invalid text was submitted over a stored file it differs
\* from, and the error is showing.
C8_Witness ==
    /\ clicks > 0 /\ ~edited.valid /\ msg = "error"
    /\ jsonFile.value # edited.value

\* C9: after a Generate on valid JSON that succeeds, the stored file is the
\* parsed value pretty-printed, and the file the download button checks for
\* exists and is the PDF just generated.
C9_GeneratedPdfIsDownloadable ==
    (clicks > 0 /\ msg = "success") =>
        /\ jsonFile = json_dumps(edited.value)
        /\ download_exposed
        /\ outFiles[OUTPUT_PDF] = rendered_pdf(jsonFile, clicks)

\* C10: a Generate either fully succeeds (input stored, a PDF written) or
\* fails leaving both the output files and the stored input file as they
\* were.
C10_NoPartialSuccess ==
    [][Clicked =>
          \/ /\ msg' = "success"
             /\ jsonFile' = json_dumps(edited'.value)
             /\ \E f \in DOMAIN outFiles' : outFiles'[f] = rendered_pdf(jsonFile', clicks')
          \/ /\ msg' = "error"
             /\ outFiles' = outFiles
             /\ jsonFile' = jsonFile]_vars

===========================================================================
